---- MODULE Spec2Model ----
(***************************************************************************)
(* Authentication / token lifecycle of the webpv backend:                  *)
(*   app/services/auth_service.py, app/core/security.py, app/api/auth.py,  *)
(*   app/db/firestore_client.py.                                           *)
(* The clock counts whole seconds (datetime.utcnow()).                     *)
(***************************************************************************)
EXTENDS Integers, Sequences, FiniteSets, TLC

(* ------------------------------------------------------------------ *)
(* Settings (app/core/config.py)                                      *)
(* ------------------------------------------------------------------ *)
RATE_LIMIT_ENABLED == TRUE
RATE_LIMIT_PER_MINUTE == 5
RATE_LIMIT_LOCKOUT_MINUTES == 15
ACCESS_TOKEN_EXPIRE_MINUTES == 60
REFRESH_TOKEN_EXPIRE_DAYS == 7
SECRET_KEY == "your-secret-key-change-in-production-min-32-chars"

(* timedelta(minutes=m), timedelta(days=d) in seconds *)
LockoutSeconds == RATE_LIMIT_LOCKOUT_MINUTES * 60
RefreshSeconds == REFRESH_TOKEN_EXPIRE_DAYS * 86400
AccessSeconds == ACCESS_TOKEN_EXPIRE_MINUTES * 60

(* ------------------------------------------------------------------ *)
(* Bounds of the model                                                *)
(* ------------------------------------------------------------------ *)
MaxCalls == 7
MaxTicks == 1
MaxRows == 3
MaxTokens == 2
MaxWaits == 4
MaxInflight == 2

(* ------------------------------------------------------------------ *)
(* Inputs                                                             *)
(* ------------------------------------------------------------------ *)
GoodPassword == "testpass123"
Passwords == {GoodPassword, "wrong_password"}
UserIds == {"TEST001", "BLOCKED001", "NOEXIST"}
TokenInputs == 1..(MaxTokens + 1)
(* clock advances: just inside / exactly at the lockout window, at / just *)
(* past a refresh token's expiry, around an access token's expiry         *)
Jumps == {LockoutSeconds - 1, LockoutSeconds}
TokenJumps == {RefreshSeconds, RefreshSeconds + 1}
JwtJumps == {1, 2, AccessSeconds - 1, AccessSeconds, AccessSeconds + 1}
Deltas == {<<>>, <<-1>>, <<0>>, <<1>>, <<2>>}

VARIABLES
    now,              \* datetime.utcnow(), seconds
    users,            \* Firestore collection "users": id -> document
    refresh_tokens,   \* Firestore collection "refresh_tokens": token -> document
    login_attempts,   \* auth_service._login_attempts: id -> list of timestamps
    locked_accounts,  \* auth_service._locked_accounts: id -> locked_until
    last,             \* the step taken most recently and its response
    streak,           \* id -> logins answered 401 since its rate-limit entry was empty
    run,              \* id -> password mismatches since the last success
    pair,             \* side-by-side probing of an existing and an unknown id
    revoked_ever,     \* tokens that revoke_refresh_token has revoked
    issued,           \* an access token made by create_access_token, with its TTL
    verified,         \* the outcome of verify_token on that token
    ntokens,          \* number of refresh tokens generated so far
    ncalls,           \* number of login requests served
    nticks,           \* number of clock advances
    derived,          \* a query row with the client and recommendations made from it
    route,            \* the response to the latest route-plan request
    inflight          \* login requests accepted by the server and not yet answered

vars == <<now, users, refresh_tokens, login_attempts, locked_accounts, last,
          streak, run, pair, revoked_ever, issued, verified, ntokens, ncalls,
          nticks, derived, route, inflight>>

jwtvars == <<issued, verified>>

routevars == <<derived, route, inflight>>

(* dict helpers *)
Remove(f, k) == [x \in (DOMAIN f) \ {k} |-> f[x]]
Put(f, k, v) == [x \in (DOMAIN f) \cup {k} |-> IF x = k THEN v ELSE f[x]]

(* ------------------------------------------------------------------ *)
(* app/core/security.py                                               *)
(* ------------------------------------------------------------------ *)
hash_password(password) == <<"bcrypt", password>>

verify_password(plain_password, hashed_password) ==
    hashed_password = hash_password(plain_password)

(* expires_delta is <<>> for None and <<d>> for timedelta(seconds=d);     *)
(* "if expires_delta:" is Python truthiness: None and timedelta(0) are    *)
(* both false.                                                            *)
Truthy(expires_delta) == expires_delta # <<>> /\ expires_delta[1] # 0

create_access_token(data, expires_delta, t) ==
    LET expire == IF Truthy(expires_delta)
                  THEN t + expires_delta[1]
                  ELSE t + AccessSeconds
    IN [sub |-> data.sub, rol |-> data.rol, ruta |-> data.ruta,
        exp |-> expire, iat |-> t, type |-> "access", key |-> SECRET_KEY]

(* jwt.decode: signature check, then exp: expired iff exp < now *)
verify_token(token, t) ==
    IF token.key # SECRET_KEY THEN [ok |-> FALSE, error |-> "JWTError"]
    ELSE IF token.exp < t THEN [ok |-> FALSE, error |-> "ExpiredSignatureError"]
    ELSE [ok |-> TRUE, error |-> ""]

(* secrets.token_urlsafe(32): a value never generated before *)
generate_refresh_token(n) == n + 1

get_refresh_token_expiration_past(t) == t - RefreshSeconds

get_refresh_token_expiration(t) == t + RefreshSeconds

(* ------------------------------------------------------------------ *)
(* app/db/firestore_client.py                                         *)
(* ------------------------------------------------------------------ *)
set_intentos_fallidos(us, user_id, value) ==
    [us EXCEPT ![user_id] = [@ EXCEPT !.intentos_fallidos = value]]

set_bloqueado(us, user_id, value) ==
    [us EXCEPT ![user_id] = [@ EXCEPT !.bloqueado = value]]

get_user_by_id(us, user_id) ==
    IF user_id \in DOMAIN us THEN <<us[user_id]>> ELSE <<>>

save_refresh_token_expiry_now(toks, token, user_id, expires_at, t) ==
    Put(toks, token, [user_id |-> user_id, expires_at |-> t,
                      created_at |-> t, revoked |-> FALSE])

save_refresh_token(toks, token, user_id, expires_at, t) ==
    Put(toks, token, [user_id |-> user_id, expires_at |-> expires_at,
                      created_at |-> t, revoked |-> FALSE])

get_refresh_token(toks, token) ==
    IF token \in DOMAIN toks THEN <<toks[token]>> ELSE <<>>

(* doc_ref.update on a missing document raises NotFound *)
revoke_refresh_token(toks, token) ==
    IF token \in DOMAIN toks
    THEN [toks EXCEPT ![token] = [@ EXCEPT !.revoked = TRUE]]
    ELSE toks

delete_expired_tokens(toks, t) ==
    [k \in {x \in DOMAIN toks : ~(toks[x].expires_at < t)} |-> toks[k]]

(* ------------------------------------------------------------------ *)
(* Rate limiting (auth_service.py)                                    *)
(* ------------------------------------------------------------------ *)
InWindow_unpruned(attempts, cutoff) == attempts

(* lines 76-80: attempts newer than the cutoff *)
InWindow(attempts, cutoff) ==
    LET Keep(attempt) == attempt > cutoff IN SelectSeq(attempts, Keep)

limit_exceeded_off_by_one(attempts) == Len(attempts) > RATE_LIMIT_PER_MINUTE

(* line 83: the failure count reaches the limit *)
limit_exceeded(attempts) == Len(attempts) >= RATE_LIMIT_PER_MINUTE

refuse_locked_extends(att, lck, t, user_id) ==
    [raised |-> TRUE, retryAfter |-> LockoutSeconds, att |-> att,
     lck |-> Put(lck, user_id, t + LockoutSeconds)]

(* lines 55-64: the account is locked, the request is refused *)
refuse_locked(att, lck, t, user_id) ==
    [raised |-> TRUE, retryAfter |-> lck[user_id] - t, att |-> att, lck |-> lck]

lock_active_through_expiry(lck, t, user_id) == t <= lck[user_id]

(* line 54: datetime.utcnow() < locked_until *)
lock_active(lck, t, user_id) == t < lck[user_id]

check_rate_limit(att, lck, t, user_id) ==
    IF ~RATE_LIMIT_ENABLED
    THEN [raised |-> FALSE, retryAfter |-> 0, att |-> att, lck |-> lck]
    ELSE IF user_id \in DOMAIN lck /\ lock_active(lck, t, user_id)
    THEN refuse_locked(att, lck, t, user_id)
    ELSE
      LET expired == user_id \in DOMAIN lck
          lck1 == IF expired THEN Remove(lck, user_id) ELSE lck
          att1 == IF expired /\ user_id \in DOMAIN att
                  THEN Remove(att, user_id) ELSE att
          cutoff == t - LockoutSeconds
      IN IF user_id \in DOMAIN att1
         THEN LET att2 == [att1 EXCEPT ![user_id] = InWindow(@, cutoff)]
              IN IF limit_exceeded(att2[user_id])
                 THEN [raised |-> TRUE,
                       retryAfter |-> RATE_LIMIT_LOCKOUT_MINUTES * 60,
                       att |-> att2,
                       lck |-> Put(lck1, user_id, t + LockoutSeconds)]
                 ELSE [raised |-> FALSE, retryAfter |-> 0,
                       att |-> att2, lck |-> lck1]
         ELSE [raised |-> FALSE, retryAfter |-> 0, att |-> att1, lck |-> lck1]

record_failed_attempt_shared(att, t, user_id) ==
    LET att1 == IF user_id \notin DOMAIN att THEN Put(att, user_id, <<>>) ELSE att
    IN [u \in DOMAIN att1 |-> Append(att1[u], t)]

(* lines 99-104 *)
record_failed_attempt(att, t, user_id) ==
    LET att1 == IF user_id \notin DOMAIN att THEN Put(att, user_id, <<>>) ELSE att
    IN [att1 EXCEPT ![user_id] = Append(@, t)]

clear_failed_attempts_kept(att, user_id) == att

(* lines 107-110 *)
clear_failed_attempts(att, user_id) ==
    IF user_id \in DOMAIN att THEN Remove(att, user_id) ELSE att

(* ------------------------------------------------------------------ *)
(* Authentication (auth_service.py)                                   *)
(* ------------------------------------------------------------------ *)
BLOCK_AFTER == 5

is_blocked_ignored(user) == FALSE

(* line 145 *)
is_blocked(user) == user.bloqueado

(* line 156 *)
is_inactive(user) == ~user.activo

next_intentos_fallidos_stuck(user) == user.intentos_fallidos

(* line 173 *)
next_intentos_fallidos(user) == user.intentos_fallidos + 1

reaches_block_late(user) == user.intentos_fallidos + 1 > BLOCK_AFTER

(* line 177 *)
reaches_block(user) == user.intentos_fallidos + 1 >= BLOCK_AFTER

(* lines 56-63, 89-97: the HTTPException of check_rate_limit *)
rate_limited(rl, us) ==
    [kind |-> "RATE_LIMIT_EXCEEDED", retryAfter |-> rl.retryAfter,
     calls |-> <<"check_rate_limit">>,
     us |-> us, att |-> rl.att, lck |-> rl.lck]

(* lines 134-197: authenticate_user after check_rate_limit has returned *)
authenticate_checked(us, att, lck, t, user_id, password) ==
    LET user_data == get_user_by_id(us, user_id)
    IN
    IF user_data = <<>>
    THEN [kind |-> "NONE", retryAfter |-> 0,
          calls |-> <<"check_rate_limit", "get_user_by_id",
                      "record_failed_attempt">>,
          us |-> us, att |-> record_failed_attempt(att, t, user_id),
          lck |-> lck]
    ELSE LET user == user_data[1] IN
    IF is_blocked(user)
    THEN [kind |-> "ACCOUNT_BLOCKED", retryAfter |-> 0,
          calls |-> <<"check_rate_limit", "get_user_by_id">>,
          us |-> us, att |-> att, lck |-> lck]
    ELSE IF is_inactive(user)
    THEN [kind |-> "ACCOUNT_BLOCKED", retryAfter |-> 0,
          calls |-> <<"check_rate_limit", "get_user_by_id">>,
          us |-> us, att |-> att, lck |-> lck]
    ELSE IF ~verify_password(password, user.password_hash)
    THEN LET us1 == set_intentos_fallidos(us, user_id, next_intentos_fallidos(user))
             us2 == IF reaches_block(user)
                    THEN set_bloqueado(us1, user_id, TRUE) ELSE us1
         IN [kind |-> "NONE", retryAfter |-> 0,
             calls |-> <<"check_rate_limit", "get_user_by_id",
                         "verify_password", "record_failed_attempt",
                         "update_user">>,
             us |-> us2, att |-> record_failed_attempt(att, t, user_id),
             lck |-> lck]
    ELSE [kind |-> "USER", retryAfter |-> 0,
          calls |-> <<"check_rate_limit", "get_user_by_id",
                      "verify_password", "clear_failed_attempts">>,
          us |-> IF user.intentos_fallidos > 0
                 THEN set_intentos_fallidos(us, user_id, 0) ELSE us,
          att |-> clear_failed_attempts(att, user_id),
          lck |-> lck]

authenticate_user(us, att, lck, t, user_id, password) ==
    LET rl == check_rate_limit(att, lck, t, user_id)
    IN IF rl.raised
       THEN rate_limited(rl, us)
       ELSE authenticate_checked(us, rl.att, rl.lck, t, user_id, password)

create_user_tokens(toks, n, user, t) ==
    LET access_token == create_access_token(
                            [sub |-> user.id, rol |-> user.rol, ruta |-> user.ruta],
                            <<>>, t)
        refresh_token == generate_refresh_token(n)
        refresh_expires_at == get_refresh_token_expiration(t)
    IN [access_token |-> access_token, refresh_token |-> refresh_token,
        expires_in |-> ACCESS_TOKEN_EXPIRE_MINUTES * 60,
        toks |-> save_refresh_token(toks, refresh_token, user.id,
                                    refresh_expires_at, t)]

is_revoked_ignored(token_data) == FALSE

(* line 257 *)
is_revoked(token_data) == token_data.revoked

is_expired_at_expiry(t, expires_at) == t >= expires_at

(* line 275 *)
is_expired(t, expires_at) == t > expires_at

validate_refresh_token_active_only(toks, us, t, token) ==
    LET token_data == get_refresh_token(toks, token) IN
    IF token_data = <<>>
    THEN [ok |-> FALSE, error |-> "INVALID_CREDENTIALS", user |-> ""]
    ELSE IF is_revoked(token_data[1])
    THEN [ok |-> FALSE, error |-> "INVALID_CREDENTIALS", user |-> ""]
    ELSE IF is_expired(t, token_data[1].expires_at)
    THEN [ok |-> FALSE, error |-> "INVALID_CREDENTIALS", user |-> ""]
    ELSE IF get_user_by_id(us, token_data[1].user_id) = <<>>
    THEN [ok |-> FALSE, error |-> "INVALID_CREDENTIALS", user |-> ""]
    ELSE IF get_user_by_id(us, token_data[1].user_id)[1].bloqueado
    THEN [ok |-> FALSE, error |-> "ACCOUNT_BLOCKED", user |-> ""]
    ELSE [ok |-> TRUE, error |-> "",
          user |-> get_user_by_id(us, token_data[1].user_id)[1].id]

(* lines 230-304 *)
validate_refresh_token(toks, us, t, token) ==
    LET token_data == get_refresh_token(toks, token) IN
    IF token_data = <<>>
    THEN [ok |-> FALSE, error |-> "INVALID_CREDENTIALS", user |-> ""]
    ELSE IF is_revoked(token_data[1])
    THEN [ok |-> FALSE, error |-> "INVALID_CREDENTIALS", user |-> ""]
    ELSE IF is_expired(t, token_data[1].expires_at)
    THEN [ok |-> FALSE, error |-> "INVALID_CREDENTIALS", user |-> ""]
    ELSE IF get_user_by_id(us, token_data[1].user_id) = <<>>
    THEN [ok |-> FALSE, error |-> "INVALID_CREDENTIALS", user |-> ""]
    ELSE [ok |-> TRUE, error |-> "",
          user |-> get_user_by_id(us, token_data[1].user_id)[1].id]

(* ------------------------------------------------------------------ *)
(* Python values of a query row (app/db/mssql_client.py returns each  *)
(* row as a dict): a key may be missing, hold None, an int or a str.  *)
(* ------------------------------------------------------------------ *)
Absent == <<>>
PyNone == <<"None">>
PyInt(n) == <<"int", n>>
PyStr(s) == <<"str", s>>

(* dict.get(key, default) *)
get(row, key, default) == IF Len(row[key]) = 0 THEN default ELSE row[key]

(* bool(v): None, 0 and "" are false *)
bool(v) ==
    /\ Len(v) = 2
    /\ IF v[1] = "int" THEN v[2] # 0 ELSE v[2] # ""

(* v == n for an int n *)
eq_int(v, n) == Len(v) = 2 /\ v[1] = "int" /\ v[2] = n

(* v == s for a str s *)
eq_str(v, s) == Len(v) = 2 /\ v[1] = "str" /\ v[2] = s

(* str(v), f"{v}" *)
str(v) ==
    IF Len(v) = 1 THEN "None"
    ELSE IF v[1] = "str" THEN v[2]
    ELSE ToString(v[2])

(* ------------------------------------------------------------------ *)
(* IEEE-754 double arithmetic as route_service.py line 130-131 uses   *)
(* it. A double is [digits, k]: digits is the significand in base     *)
(* 2^13 limbs, least significant first, the last limb holding the     *)
(* bits from 2^52 up; its value is significand * 2^(-52 - k).         *)
(* ------------------------------------------------------------------ *)
RECURSIVE pow2(_)
pow2(n) == IF n = 0 THEN 1 ELSE 2 * pow2(n - 1)

Limb == pow2(13)

RECURSIVE bit_length(_)
bit_length(n) == IF n = 0 THEN 0 ELSE 1 + bit_length(n \div 2)

(* k with b <= a * 2^k < 2b, for 0 < a <= b *)
RECURSIVE binary_exponent(_, _)
binary_exponent(a, b) == IF a >= b THEN 0 ELSE 1 + binary_exponent(2 * a, b)

(* n further base-2^13 digits of r / b, then the remainder *)
RECURSIVE long_div(_, _, _)
long_div(r, b, n) ==
    IF n = 0 THEN <<r>>
    ELSE <<(r * Limb) \div b>> \o long_div((r * Limb) % b, b, n - 1)

RECURSIVE propagate(_, _)
propagate(digits, c) ==
    IF Len(digits) = 1 THEN <<digits[1] + c>>
    ELSE <<(digits[1] + c) % Limb>>
         \o propagate(Tail(digits), (digits[1] + c) \div Limb)

(* a / b for ints 0 < a <= b: the quotient rounded to nearest, ties to even *)
float_div(a, b) ==
    LET k == binary_exponent(a, b)
        n == a * pow2(k)
        q == long_div(n % b, b, 4)
        up == 2 * q[5] > b \/ (2 * q[5] = b /\ q[4] % 2 = 1)
    IN [digits |-> propagate(<<q[4] + (IF up THEN 1 ELSE 0), q[3], q[2], q[1],
                               n \div b>>, 0),
        k |-> k]

(* f * n for a double f and an int n > 0: the product rounded to 53 bits *)
float_mul(f, n) ==
    LET p == propagate([i \in 1..5 |-> f.digits[i] * n], 0)
        unit == pow2(bit_length(p[5]) - 1)
        low == p[1] % unit
        up == 2 * low > unit \/ (2 * low = unit /\ (p[1] \div unit) % 2 = 1)
    IN [digits |-> propagate(<<p[1] - low + (IF up THEN unit ELSE 0)>> \o Tail(p), 0),
        k |-> f.k]

(* int(f): truncation *)
float_int(f) == f.digits[5] \div pow2(f.k)

(* n < f for an int n and a double f *)
int_lt_float(n, f) ==
    \/ n * pow2(f.k) < f.digits[5]
    \/ (n * pow2(f.k) = f.digits[5] /\ \E i \in 1..4 : f.digits[i] # 0)

(* the literal 0.8 *)
ZeroPointEight == float_div(4, 5)

(* ------------------------------------------------------------------ *)
(* app/services/route_service.py                                      *)
(* ------------------------------------------------------------------ *)
(* v or 0, for a number or None *)
or_zero(v) == IF bool(v) THEN v[2] ELSE 0

(* lines 40-42: the segment of the client record *)
segmento_of(row) ==
    LET gecs == get(row, "GECS", PyStr("BRONCE"))
    IN IF ~bool(gecs) \/ eq_str(gecs, "") THEN "BRONCE" ELSE str(gecs)

prioridad_of_segment_first(row, gecs) ==
    IF gecs \in {"PLATINO", "TITANIO"} THEN "alta"
    ELSE IF eq_int(get(row, "CTECUMPLIDO", PyInt(0)), 1) THEN "baja"
    ELSE IF bool(get(row, "IDSHOP", PyNone)) THEN "alta"
    ELSE "media"

(* lines 45-53 *)
prioridad_of(row, gecs) ==
    IF eq_int(get(row, "CTECUMPLIDO", PyInt(0)), 1) THEN "baja"
    ELSE IF gecs \in {"PLATINO", "TITANIO"} THEN "alta"
    ELSE IF bool(get(row, "IDSHOP", PyNone)) THEN "alta"
    ELSE "media"

generate_razon_visita(row) ==
    LET gecs == get(row, "GECS", PyStr("BRONCE"))
        ctecumplido == get(row, "CTECUMPLIDO", PyInt(0))
        idshop == get(row, "IDSHOP", PyNone)
    IN IF bool(idshop) THEN <<"Inscripcion programa HEI">>
       ELSE IF eq_int(ctecumplido, 0) THEN <<"Recuperacion de ventas">>
       ELSE IF bool(get(row, "ENFRIADORES", PyNone))
       THEN <<"Seguimiento de enfriadores">>
       ELSE IF bool(get(row, "DESCLP", PyNone))
       THEN <<"Promocion activa - Lona">>
       ELSE <<"Visita programada - Cliente", str(gecs)>>

map_to_cliente(row) ==
    LET gecs == segmento_of(row)
    IN [id |-> str(get(row, "CLIENTE_ID", PyStr(""))),
        codigo |-> str(get(row, "CLIENTE_ID", PyStr(""))),
        nombre |-> get(row, "NOMBRE_CLIENTE", PyStr("Cliente Sin Nombre")),
        segmento |-> gecs,
        razonVisita |-> generate_razon_visita(row),
        prioridad |-> prioridad_of(row, gecs)]

Recomendacion(clienteId, tipo, prioridad, titulo, descripcion, razonVisita, sku) ==
    [clienteId |-> clienteId, tipo |-> tipo, prioridad |-> prioridad,
     titulo |-> titulo, descripcion |-> descripcion,
     razonVisita |-> razonVisita, sku |-> sku]

(* line 114 *)
hei_applies(row) == bool(get(row, "IDSHOP", PyNone))

(* line 130: cerveza_sant > 0 and cerveza_sact < cerveza_sant * 0.8 *)
sales_dropped(cerveza_sant, cerveza_sact) ==
    /\ cerveza_sant > 0
    /\ int_lt_float(cerveza_sact, float_mul(ZeroPointEight, cerveza_sant))

(* line 131: int(((cerveza_sant - cerveza_sact) / cerveza_sant) * 100) *)
drop_percentage(cerveza_sant, cerveza_sact) ==
    float_int(float_mul(float_div(cerveza_sant - cerveza_sact, cerveza_sant), 100))

maintain_applies_independent(row, dropped) ==
    eq_int(get(row, "CTECUMPLIDO", PyNone), 1)

(* line 144: elif row.get("CTECUMPLIDO") == 1 *)
maintain_applies(row, dropped) ==
    ~dropped /\ eq_int(get(row, "CTECUMPLIDO", PyNone), 1)

product_applies_truthy(row, key) == bool(get(row, key, PyNone))

(* lines 158, 171, 184, 197: row.get(K) and (row.get(K, 0) or 0) > 0 *)
product_applies(row, key) ==
    bool(get(row, key, PyNone)) /\ or_zero(get(row, key, PyInt(0))) > 0

(* lines 113-124 *)
rec_hei(cliente, row) ==
    IF hei_applies(row)
    THEN <<Recomendacion(cliente.id, "informacion", "alta",
                         <<"Programa HEI disponible">>,
                         <<"Cliente elegible para programa Heineken">>,
                         "Oportunidad de crecimiento con programa HEI", PyNone)>>
    ELSE <<>>

(* lines 126-154 *)
rec_volume(cliente, row) ==
    LET cerveza_sant == or_zero(get(row, "CERVEZA_SANT", PyInt(0)))
        cerveza_sact == or_zero(get(row, "CERVEZA_SACT", PyInt(0)))
        dropped == sales_dropped(cerveza_sant, cerveza_sact)
    IN (IF dropped
        THEN <<Recomendacion(cliente.id, "venta", "alta",
                  <<"Recuperar ventas", drop_percentage(cerveza_sant, cerveza_sact)>>,
                  <<"Las ventas han caido", cerveza_sant, cerveza_sact>>,
                  "Recuperacion de volumen de ventas", PyNone)>>
        ELSE <<>>)
       \o (IF maintain_applies(row, dropped)
           THEN <<Recomendacion(cliente.id, "venta", "media",
                     <<"Mantener volumen actual">>,
                     <<"Cliente cumpliendo objetivo", cliente.segmento>>,
                     "Seguimiento de cliente cumplido", PyNone)>>
           ELSE <<>>)

(* lines 156-207 *)
rec_product(cliente, row, key, titulo, razon) ==
    IF product_applies(row, key)
    THEN <<Recomendacion(cliente.id, "venta", "media", <<titulo>>,
                         <<"Cliente compra", key>>, razon, PyStr(key))>>
    ELSE <<>>

(* lines 209-220 *)
rec_promocion(cliente, row) ==
    IF bool(get(row, "DESCLP", PyNone))
    THEN <<Recomendacion(cliente.id, "merchandising", "alta",
                         <<"Promocion Lona activa">>,
                         <<"Cliente tiene promocion de lona activa">>,
                         "Seguimiento de promocion", PyNone)>>
    ELSE <<>>

(* lines 222-233 *)
rec_enfriadores(cliente, row) ==
    IF bool(get(row, "ENFRIADORES", PyNone))
    THEN <<Recomendacion(cliente.id, "merchandising", "media",
                         <<"Seguimiento de enfriadores">>,
                         <<"Cliente tiene enfriadores">>,
                         "Mantenimiento de activos", PyNone)>>
    ELSE <<>>

generate_recomendaciones_drop_first(cliente, row) ==
    rec_volume(cliente, row)
    \o rec_hei(cliente, row)
    \o rec_product(cliente, row, "MILLER", "Ampliar portafolio Miller",
                   "Oportunidad de cross-selling")
    \o rec_product(cliente, row, "INDIO", "Incrementar Indio",
                   "Oportunidad de crecimiento en marca Indio")
    \o rec_product(cliente, row, "TECATE", "Reforzar Tecate",
                   "Oportunidad en marca Tecate")
    \o rec_product(cliente, row, "XX", "Promover XX Lager",
                   "Oportunidad en marca XX")
    \o rec_promocion(cliente, row)
    \o rec_enfriadores(cliente, row)

generate_recomendaciones(cliente, row) ==
    rec_hei(cliente, row)
    \o rec_volume(cliente, row)
    \o rec_product(cliente, row, "MILLER", "Ampliar portafolio Miller",
                   "Oportunidad de cross-selling")
    \o rec_product(cliente, row, "INDIO", "Incrementar Indio",
                   "Oportunidad de crecimiento en marca Indio")
    \o rec_product(cliente, row, "TECATE", "Reforzar Tecate",
                   "Oportunidad en marca Tecate")
    \o rec_product(cliente, row, "XX", "Promover XX Lager",
                   "Oportunidad en marca XX")
    \o rec_promocion(cliente, row)
    \o rec_enfriadores(cliente, row)

(* date.isoformat() for a date <<year, month, day>> *)
two_digits(n) == IF n < 10 THEN "0" \o ToString(n) ELSE ToString(n)

isoformat_unpadded(fecha) ==
    ToString(fecha[1]) \o "-" \o ToString(fecha[2]) \o "-" \o ToString(fecha[3])

(* line 278: fecha.isoformat(), YYYY-MM-DD *)
isoformat(fecha) ==
    ToString(fecha[1]) \o "-" \o two_digits(fecha[2]) \o "-" \o two_digits(fecha[3])

(* date.today(): the clock starts at midnight, 1 September 2025 *)
today(t) == <<2025, 9, 1 + (t \div 86400)>>

RECURSIVE extend_all_reversed(_, _)
extend_all_reversed(clientes, rows) ==
    IF rows = <<>> THEN <<>>
    ELSE extend_all_reversed(Tail(clientes), Tail(rows))
         \o generate_recomendaciones(Head(clientes), Head(rows))

(* lines 266-273: recomendaciones.extend(...) for each row in turn *)
RECURSIVE extend_all(_, _)
extend_all(clientes, rows) ==
    IF rows = <<>> THEN <<>>
    ELSE generate_recomendaciones(Head(clientes), Head(rows))
         \o extend_all(Tail(clientes), Tail(rows))

(* results is what execute_hoja_visita_query(ruta, fecha) gives: rows, or *)
(* an exception of the driver                                            *)
get_route_plan(asesor_id, ruta, fecha, results) ==
    IF ~results.ok
    THEN [raised |-> TRUE, plan |-> <<>>]
    ELSE LET clientes == [i \in 1..Len(results.rows) |->
                             map_to_cliente(results.rows[i])]
         IN [raised |-> FALSE,
             plan |-> <<[fecha |-> isoformat(fecha), asesorId |-> asesor_id,
                         clientes |-> clientes,
                         recomendaciones |-> extend_all(clientes, results.rows)]>>]

(* ------------------------------------------------------------------ *)
(* app/api/dependencies.py                                            *)
(* ------------------------------------------------------------------ *)
get_current_user(us, token, t) ==
    LET payload == verify_token(token, t)
        user_data == get_user_by_id(us, token.sub)
    IN IF ~payload.ok
       THEN [ok |-> FALSE, status |-> 401, error |-> "INVALID_CREDENTIALS",
             user |-> <<>>]
       ELSE IF token.sub = ""
       THEN [ok |-> FALSE, status |-> 401, error |-> "INVALID_CREDENTIALS",
             user |-> <<>>]
       ELSE IF user_data = <<>>
       THEN [ok |-> FALSE, status |-> 401, error |-> "INVALID_CREDENTIALS",
             user |-> <<>>]
       ELSE [ok |-> TRUE, status |-> 200, error |-> "", user |-> user_data]

account_blocked_ignored(current_user) == FALSE

(* line 112 *)
account_blocked(current_user) == current_user.bloqueado

get_current_active_user(us, token, t) ==
    LET cu == get_current_user(us, token, t)
    IN IF ~cu.ok THEN cu
       ELSE IF ~cu.user[1].activo
       THEN [ok |-> FALSE, status |-> 403, error |-> "ACCOUNT_BLOCKED",
             user |-> <<>>]
       ELSE IF account_blocked(cu.user[1])
       THEN [ok |-> FALSE, status |-> 403, error |-> "ACCOUNT_BLOCKED",
             user |-> <<>>]
       ELSE cu

(* ------------------------------------------------------------------ *)
(* Initial state: the test fixtures of tests/conftest.py, empty       *)
(* rate-limit dictionaries, no refresh tokens.                        *)
(* ------------------------------------------------------------------ *)
test_user_data ==
    [id |-> "TEST001", nombre |-> "Usuario Test", rol |-> "asesor",
     ruta |-> "001", password_hash |-> hash_password(GoodPassword),
     activo |-> TRUE, bloqueado |-> FALSE, intentos_fallidos |-> 0]

blocked_user_data ==
    [id |-> "BLOCKED001", nombre |-> "Usuario Bloqueado", rol |-> "asesor",
     ruta |-> "001", password_hash |-> hash_password(GoodPassword),
     activo |-> TRUE, bloqueado |-> TRUE, intentos_fallidos |-> 5]

InitialUsers ==
    ("TEST001" :> test_user_data) @@ ("BLOCKED001" :> blocked_user_data)

(* rows of the mocked legacy query in tests/test_route_planning.py *)
mock_row_success ==
    [CLIENTE_ID |-> PyStr("C001"), NOMBRE_CLIENTE |-> PyStr("Tienda Test"),
     GECS |-> PyStr("ORO"), RUTA |-> PyStr("001"), VISITA |-> PyStr("LMJV"),
     CTECUMPLIDO |-> PyInt(1), CERVEZA_SANT |-> PyInt(50),
     CERVEZA_SACT |-> PyInt(45), IDSHOP |-> PyNone, ENFRIADORES |-> PyNone,
     DESCLP |-> PyNone, MILLER |-> PyNone, INDIO |-> PyNone, TECATE |-> PyNone,
     XX |-> PyNone]

mock_row_hei ==
    [mock_row_success EXCEPT !.NOMBRE_CLIENTE = PyStr("Tienda HEI"),
                             !.GECS = PyStr("PLATINO"),
                             !.CERVEZA_SACT = PyInt(50),
                             !.IDSHOP = PyStr("HEI001")]

mock_row_sales_drop ==
    [mock_row_success EXCEPT !.CLIENTE_ID = PyStr("C002"),
                             !.NOMBRE_CLIENTE = PyStr("Tienda Baja Ventas"),
                             !.CTECUMPLIDO = PyInt(0),
                             !.CERVEZA_SANT = PyInt(100),
                             !.CERVEZA_SACT = PyInt(50)]

mock_row_product_sales ==
    [mock_row_success EXCEPT !.CLIENTE_ID = PyStr("C003"),
                             !.NOMBRE_CLIENTE = PyStr("Tienda Productos"),
                             !.GECS = PyStr("PLATA"),
                             !.CERVEZA_SACT = PyInt(50),
                             !.MILLER = PyInt(10), !.INDIO = PyInt(15)]

(* values a column of the query can hold; a SQL NULL arrives as None *)
GecsValues ==
    {Absent, PyNone, PyStr(""), PyStr("ORO"), PyStr("PLATINO"), PyStr("TITANIO")}
FlagValues == {Absent, PyNone, PyInt(0), PyInt(1)}
IdshopValues == {Absent, PyNone, PyStr(""), PyStr("HEI001")}
CoolerValues == {PyNone, PyInt(0), PyInt(2)}
PromoValues == {PyNone, PyStr("LONA")}
SalesValues == {Absent, PyNone, PyInt(0), PyInt(0 - 1), PyInt(10)}
VolumeValues ==
    {Absent, PyNone, PyInt(0), PyInt(1), PyInt(3), PyInt(50), PyInt(71),
     PyInt(80), PyInt(100)}

RowsCliente ==
    {[mock_row_success EXCEPT !.GECS = g, !.CTECUMPLIDO = c, !.IDSHOP = s,
                              !.ENFRIADORES = e, !.DESCLP = p] :
        g \in GecsValues, c \in FlagValues, s \in IdshopValues,
        e \in CoolerValues, p \in PromoValues}

RowsReglas ==
    {[mock_row_success EXCEPT !.IDSHOP = s, !.CTECUMPLIDO = c,
                              !.CERVEZA_SANT = a, !.CERVEZA_SACT = b,
                              !.MILLER = m, !.INDIO = i, !.TECATE = t, !.XX = x,
                              !.DESCLP = p, !.ENFRIADORES = e] :
        s \in {PyNone, PyStr("HEI001")}, c \in {PyNone, PyInt(0), PyInt(1)},
        a \in {PyNone, PyInt(100)}, b \in {PyInt(50), PyInt(80), PyInt(100)},
        m \in {PyNone, PyInt(10)}, i \in {PyNone, PyInt(10)},
        t \in {PyNone, PyInt(10)}, x \in {PyNone, PyInt(10)},
        p \in PromoValues, e \in {PyNone, PyInt(2)}}

RowsProductos ==
    {[mock_row_success EXCEPT !.CTECUMPLIDO = c, !.MILLER = m, !.INDIO = i,
                              !.TECATE = t, !.XX = x] :
        c \in {PyInt(0), PyInt(1)}, m \in SalesValues, i \in SalesValues,
        t \in SalesValues, x \in SalesValues}

RowsVolumen ==
    {[mock_row_success EXCEPT !.CTECUMPLIDO = c, !.CERVEZA_SANT = a,
                              !.CERVEZA_SACT = b] :
        c \in {PyInt(0), PyInt(1)}, a \in VolumeValues, b \in VolumeValues}

(* Authorization headers: none, or a bearer token *)
auth_token(sub) ==
    create_access_token([sub |-> sub, rol |-> "asesor", ruta |-> "001"], <<>>, 0)

Bearers ==
    {<<>>, <<[auth_token("TEST001") EXCEPT !.key = "invalid-token"]>>}
    \cup {<<auth_token(sub)>> : sub \in UserIds \cup {""}}

(* the fecha query parameter: none, or a date *)
Fechas == {<<>>, <<2025, 9, 1>>, <<2025, 12, 31>>}

(* what the legacy query gives: an error of the driver, no rows, rows *)
QueryResults ==
    {[ok |-> FALSE, rows |-> <<>>], [ok |-> TRUE, rows |-> <<>>],
     [ok |-> TRUE, rows |-> <<mock_row_hei, mock_row_sales_drop>>]}

(* results of the legacy query with up to MaxRows rows, in any order *)
PlanRows == {mock_row_hei, mock_row_sales_drop, mock_row_product_sales}

RowSeqs == UNION {[1..n -> PlanRows] : n \in 0..MaxRows}

RowResults == {[ok |-> TRUE, rows |-> rows] : rows \in RowSeqs}

(* clock advances of a lockout window and of a second more *)
SpacedJumps == {LockoutSeconds, LockoutSeconds + 1}

PlanJumps == {AccessSeconds, AccessSeconds + 1}

NoAccess == <<>>

Response(op, user_id, status, error, retryAfter, calls, token_in, refreshToken, access, user) ==
    [op |-> op, user_id |-> user_id,
     status |-> status, error |-> error, retryAfter |-> retryAfter,
     calls |-> calls, token_in |-> token_in, refreshToken |-> refreshToken,
     access |-> access, user |-> user]

Slots == 1..MaxInflight

(* a request slot of the server: where its handler stands, what it was *)
(* asked, the id's rate-limit entry as check_rate_limit left it (while *)
(* the handler runs), and the status it answered                       *)
IdleSlot ==
    [pc |-> "idle", user_id |-> "", password |-> "", seen |-> <<<<>>, <<>>>>,
     status |-> 0, overlap |-> FALSE]

Init ==
    /\ now = 0
    /\ users = InitialUsers
    /\ refresh_tokens = <<>>
    /\ login_attempts = <<>>
    /\ locked_accounts = <<>>
    /\ last = Response("init", "", 0, "", 0, <<>>, 0, 0, NoAccess, "")
    /\ streak = [u \in UserIds |-> 0]
    /\ run = [u \in UserIds |->
                [base |-> IF u \in DOMAIN InitialUsers
                          THEN InitialUsers[u].intentos_fallidos ELSE 0,
                 n |-> 0]]
    /\ pair = [e |-> "", state |-> "even", at |-> 0, status |-> 0,
               differ |-> FALSE]
    /\ revoked_ever = {}
    /\ issued = <<>>
    /\ verified = <<>>
    /\ ntokens = 0
    /\ ncalls = 0
    /\ nticks = 0
    /\ derived = <<>>
    /\ route = <<>>
    /\ inflight = [s \in Slots |-> IdleSlot]

(* the rate-limit state of an id is empty: no failure list, no lock *)
RateStateEmpty(user_id) ==
    /\ user_id \notin DOMAIN locked_accounts
    /\ (user_id \in DOMAIN login_attempts => login_attempts[user_id] = <<>>)

(* consecutive logins answered 401, counted from an empty rate-limit state *)
Streak(user_id, status) ==
    LET base == IF RateStateEmpty(user_id) THEN 0 ELSE streak[user_id]
    IN [streak EXCEPT ![user_id] = IF status = 401 THEN base + 1 ELSE base]

InCalls(c, calls) == \E i \in 1..Len(calls) : calls[i] = c

(* password mismatches of an id since its last successful authentication, *)
(* and the persisted counter read when that run began                     *)
Run(user_id, a) ==
    IF a.kind = "NONE" /\ InCalls("verify_password", a.calls)
    THEN [run EXCEPT ![user_id].n = @ + 1]
    ELSE IF a.kind = "USER"
    THEN [run EXCEPT ![user_id] = [base |-> a.us[user_id].intentos_fallidos,
                                   n |-> 0]]
    ELSE run

StatusOf(kind) ==
    CASE kind = "USER" -> 200
      [] kind = "NONE" -> 401
      [] kind = "ACCOUNT_BLOCKED" -> 403
      [] kind = "RATE_LIMIT_EXCEEDED" -> 429

(* ------------------------------------------------------------------ *)
(* POST /api/auth/login (app/api/auth.py)                             *)
(* ------------------------------------------------------------------ *)
(* the rate-limit entries of an id: its failure list and its lock *)
RateEntry(att, lck, u) ==
    <<IF u \in DOMAIN att THEN <<att[u]>> ELSE <<>>,
      IF u \in DOMAIN lck THEN <<lck[u]>> ELSE <<>>>>

(* the response of login() to the outcome a of authenticate_user, with *)
(* the tokens it issues                                                *)
LoginEffects(user_id, a) ==
    /\ login_attempts' = a.att
    /\ locked_accounts' = a.lck
    /\ users' = a.us
    /\ streak' = Streak(user_id, StatusOf(a.kind))
    /\ run' = Run(user_id, a)
    /\ IF a.kind = "USER"
       THEN LET tk == create_user_tokens(refresh_tokens, ntokens,
                                         a.us[user_id], now)
            IN /\ ntokens < MaxTokens
               /\ refresh_tokens' = tk.toks
               /\ ntokens' = ntokens + 1
               /\ last' = Response("login", user_id, 200, "", 0,
                                   a.calls, 0, tk.refresh_token,
                                   <<tk.access_token>>, a.us[user_id].id)
       ELSE /\ UNCHANGED <<refresh_tokens, ntokens>>
            /\ last' = Response("login", user_id,
                   StatusOf(a.kind),
                   IF a.kind = "NONE" THEN "INVALID_CREDENTIALS" ELSE a.kind,
                   a.retryAfter, a.calls, 0, 0, NoAccess, "")
    /\ UNCHANGED <<now, revoked_ever, nticks>>
    /\ UNCHANGED jwtvars
    /\ UNCHANGED <<derived, route>>

(* POST /api/auth/login served in one piece *)
LoginRequest(user_id, password) ==
    /\ LoginEffects(user_id,
                    authenticate_user(users, login_attempts, locked_accounts,
                                      now, user_id, password))
    /\ ncalls' = ncalls + 1
    /\ UNCHANGED inflight

Login(user_id, password) ==
    /\ ncalls < MaxCalls
    /\ LoginRequest(user_id, password)
    /\ UNCHANGED pair

(* ------------------------------------------------------------------ *)
(* POST /api/auth/refresh (app/api/auth.py)                           *)
(* ------------------------------------------------------------------ *)
Refresh(token) ==
    LET v == validate_refresh_token(refresh_tokens, users, now, token) IN
    /\ IF v.ok
       THEN LET tk == create_user_tokens(refresh_tokens, ntokens,
                                         get_user_by_id(users, v.user)[1], now)
            IN /\ ntokens < MaxTokens
               /\ refresh_tokens' = tk.toks
               /\ ntokens' = ntokens + 1
               /\ last' = Response("refresh", "", 200, "", 0, <<>>, token, 0,
                                   <<tk.access_token>>, v.user)
       ELSE /\ UNCHANGED <<refresh_tokens, ntokens>>
            /\ last' = Response("refresh", "", 401, v.error, 0, <<>>, token,
                                0, NoAccess, "")
    /\ UNCHANGED <<now, users, login_attempts, locked_accounts, streak, run, pair,
                   revoked_ever, ncalls, nticks>>
    /\ UNCHANGED jwtvars
    /\ UNCHANGED routevars

(* validate_refresh_token called on its own *)
ValidateRefresh(token) ==
    LET v == validate_refresh_token(refresh_tokens, users, now, token) IN
    /\ last' = Response("validate", "", IF v.ok THEN 200 ELSE 401, v.error,
                        0, <<>>, token, 0, NoAccess, v.user)
    /\ UNCHANGED <<now, users, refresh_tokens, login_attempts, locked_accounts,
                   streak, run, pair, revoked_ever, ntokens, ncalls, nticks>>
    /\ UNCHANGED jwtvars
    /\ UNCHANGED routevars

(* firestore_client.revoke_refresh_token *)
Revoke(token) ==
    /\ refresh_tokens' = revoke_refresh_token(refresh_tokens, token)
    /\ revoked_ever' = IF token \in DOMAIN refresh_tokens
                       THEN revoked_ever \cup {token} ELSE revoked_ever
    /\ last' = Response("revoke", "",
                        IF token \in DOMAIN refresh_tokens THEN 200 ELSE 500,
                        IF token \in DOMAIN refresh_tokens THEN "" ELSE "NotFound",
                        0, <<>>, token, 0, NoAccess, "")
    /\ UNCHANGED <<now, users, login_attempts, locked_accounts, streak, run, pair,
                   ntokens, ncalls, nticks>>
    /\ UNCHANGED jwtvars
    /\ UNCHANGED routevars

(* firestore_client.delete_expired_tokens (maintenance task) *)
DeleteExpired ==
    /\ refresh_tokens' = delete_expired_tokens(refresh_tokens, now)
    /\ last' = Response("delete_expired", "", 200, "", 0, <<>>, 0, 0,
                        NoAccess, "")
    /\ UNCHANGED <<now, users, login_attempts, locked_accounts, streak, run, pair,
                   revoked_ever, ntokens, ncalls, nticks>>
    /\ UNCHANGED jwtvars
    /\ UNCHANGED routevars

(* fixture teardown of tests/conftest.py: the user document is deleted *)
DeleteUser(user_id) ==
    /\ user_id \in DOMAIN users
    /\ users' = Remove(users, user_id)
    /\ last' = Response("delete_user", user_id, 200, "", 0, <<>>, 0, 0,
                        NoAccess, "")
    /\ UNCHANGED <<now, refresh_tokens, login_attempts, locked_accounts, streak, run, pair,
                   revoked_ever, ntokens, ncalls, nticks>>
    /\ UNCHANGED jwtvars
    /\ UNCHANGED routevars

(* the same request, with the side-by-side comparison of an existing  *)
(* id (wrong passwords) and an unknown id kept up to date             *)
PairStep(user_id, password, status) ==
    IF pair.state = "broken" THEN pair
    ELSE IF user_id \in DOMAIN users
    THEN IF /\ pair.state = "even"
            /\ pair.e \in {"", user_id}
            /\ ~verify_password(password, users[user_id].password_hash)
         THEN [e |-> user_id, state |-> "ahead", at |-> now,
               status |-> status, differ |-> pair.differ]
         ELSE [pair EXCEPT !.state = "broken"]
    ELSE IF pair.state = "ahead" /\ pair.at = now
         THEN [pair EXCEPT !.state = "even",
                           !.differ = pair.differ \/ (status # pair.status)]
         ELSE [pair EXCEPT !.state = "broken"]

LoginProbe(user_id, password) ==
    /\ ncalls < MaxCalls
    /\ LoginRequest(user_id, password)
    /\ pair' = PairStep(user_id, password, last'.status)

(* ------------------------------------------------------------------ *)
(* Route planning (app/services/route_service.py, api/route_planning.py) *)
(* ------------------------------------------------------------------ *)
corevars ==
    <<now, users, refresh_tokens, login_attempts, locked_accounts, last, streak,
      run, pair, revoked_ever, ntokens, ncalls, nticks>>

(* one pass of the loop of get_route_plan: a row becomes a client and its *)
(* recommendations; a behaviour follows one pass                         *)
Derive(row) ==
    /\ derived = <<>>
    /\ derived' = <<[row |-> row,
                     cliente |-> map_to_cliente(row),
                     recomendaciones |->
                         generate_recomendaciones(map_to_cliente(row), row)]>>
    /\ UNCHANGED corevars
    /\ UNCHANGED jwtvars
    /\ UNCHANGED <<route, inflight>>

(* GET /api/plan-de-ruta: HTTPBearer, get_current_active_user, then the plan *)
PlanDeRuta(credentials, fecha, results) ==
    LET auth == IF credentials = <<>>
                THEN [ok |-> FALSE, status |-> 403, error |-> "HTTP_ERROR",
                      user |-> <<>>]
                ELSE get_current_active_user(users, credentials[1], now)
    IN
    /\ IF auth.ok
       THEN LET current_user == auth.user[1]
                built == get_route_plan(current_user.id, current_user.ruta,
                                        IF fecha = <<>> THEN today(now) ELSE fecha,
                                        results)
            IN route' = <<[status |-> IF built.raised THEN 500 ELSE 200,
                           error |-> IF built.raised THEN "INTERNAL_ERROR" ELSE "",
                           plan |-> built.plan, queried |-> TRUE,
                           credentials |-> credentials, fecha |-> fecha,
                           results |-> results]>>
       ELSE route' = <<[status |-> auth.status, error |-> auth.error,
                        plan |-> <<>>, queried |-> FALSE,
                        credentials |-> credentials, fecha |-> fecha,
                        results |-> results]>>
    /\ UNCHANGED corevars
    /\ UNCHANGED jwtvars
    /\ UNCHANGED <<derived, inflight>>

(* firestore_client.update_user(user_id, {"activo": False}): the account is *)
(* deactivated in the credential store                                     *)
Deactivate(user_id) ==
    /\ user_id \in DOMAIN users
    /\ users[user_id].activo
    /\ users' = [users EXCEPT ![user_id] = [@ EXCEPT !.activo = FALSE]]
    /\ last' = Response("deactivate", user_id, 200, "", 0, <<>>, 0, 0,
                        NoAccess, "")
    /\ UNCHANGED <<now, refresh_tokens, login_attempts, locked_accounts, streak,
                   run, pair, revoked_ever, ntokens, ncalls, nticks>>
    /\ UNCHANGED jwtvars
    /\ UNCHANGED routevars

(* ------------------------------------------------------------------ *)
(* POST /api/auth/login, several requests accepted at once            *)
(* ------------------------------------------------------------------ *)
handler_in_threadpool_sync_def == TRUE

(* api/auth.py:28-29: login is an "async def" path operation, so it runs *)
(* on the event loop and not in the thread pool; authenticate_user and   *)
(* everything it calls are plain functions without an await, so nothing  *)
(* else runs between its check_rate_limit and its return                 *)
handler_in_threadpool == FALSE

(* the server accepts a login request *)
Arrive(s, user_id, password) ==
    /\ ncalls < MaxCalls
    /\ inflight[s].pc \in {"idle", "done"}
    /\ inflight' = [inflight EXCEPT ![s] =
                       [IdleSlot EXCEPT !.pc = "waiting", !.user_id = user_id,
                                        !.password = password]]
    /\ ncalls' = ncalls + 1
    /\ UNCHANGED <<now, users, refresh_tokens, login_attempts, locked_accounts,
                   last, streak, run, pair, revoked_ever, ntokens, nticks>>
    /\ UNCHANGED jwtvars
    /\ UNCHANGED <<derived, route>>

(* the handler of a request starts: authenticate_user up to the return *)
(* of check_rate_limit (line 132)                                      *)
Check(s) ==
    LET user_id == inflight[s].user_id
        rl == check_rate_limit(login_attempts, locked_accounts, now, user_id)
        overlap == \E o \in Slots \ {s} :
                       /\ inflight[o].pc \in {"waiting", "checked"}
                       /\ inflight[o].user_id = user_id
    IN
    /\ inflight[s].pc = "waiting"
    /\ handler_in_threadpool \/ \A o \in Slots : inflight[o].pc # "checked"
    /\ IF rl.raised
       THEN /\ LoginEffects(user_id, rate_limited(rl, users))
            /\ inflight' = [inflight EXCEPT ![s] =
                   [@ EXCEPT !.pc = "done", !.password = "", !.status = 429,
                             !.overlap = overlap]]
       ELSE /\ login_attempts' = rl.att
            /\ locked_accounts' = rl.lck
            /\ inflight' = [inflight EXCEPT ![s] =
                   [@ EXCEPT !.pc = "checked",
                             !.seen = RateEntry(rl.att, rl.lck, user_id),
                             !.overlap = overlap]]
            /\ UNCHANGED <<now, users, refresh_tokens, last, streak, run,
                           revoked_ever, ntokens, nticks>>
            /\ UNCHANGED jwtvars
            /\ UNCHANGED <<derived, route>>
    /\ UNCHANGED <<pair, ncalls>>

(* the handler goes on after check_rate_limit (lines 134-197) and login *)
(* answers                                                             *)
Finish(s) ==
    /\ inflight[s].pc = "checked"
    /\ LoginEffects(inflight[s].user_id,
                    authenticate_checked(users, login_attempts, locked_accounts,
                                         now, inflight[s].user_id,
                                         inflight[s].password))
    /\ inflight' = [inflight EXCEPT ![s] =
                       [@ EXCEPT !.pc = "done", !.password = "",
                                 !.seen = IdleSlot.seen,
                                 !.status = last'.status]]
    /\ UNCHANGED <<pair, ncalls>>

(* time passing between two logins that are at least a lockout window apart *)
Wait(d) ==
    /\ nticks < MaxWaits
    /\ now' = now + d
    /\ nticks' = nticks + 1
    /\ last' = Response("wait", "", 0, "", 0, <<>>, 0, 0, NoAccess, "")
    /\ UNCHANGED <<users, refresh_tokens, login_attempts, locked_accounts,
                   streak, run, pair, revoked_ever, ntokens, ncalls>>
    /\ UNCHANGED jwtvars
    /\ UNCHANGED routevars

(* core/security.py used on its own, as in tests/test_security.py *)
IssueAccess(expires_delta) ==
    /\ issued' = <<[delta |-> expires_delta,
                    token |-> create_access_token(
                        [sub |-> test_user_data.id, rol |-> test_user_data.rol,
                         ruta |-> test_user_data.ruta], expires_delta, now)]>>
    /\ verified' = <<>>
    /\ UNCHANGED <<now, users, refresh_tokens, login_attempts, locked_accounts,
                   last, streak, run, pair, revoked_ever, ntokens, ncalls, nticks>>
    /\ UNCHANGED routevars

VerifyAccess ==
    /\ issued # <<>>
    /\ verified' = <<[at |-> now, ok |-> verify_token(issued[1].token, now).ok]>>
    /\ UNCHANGED <<now, users, refresh_tokens, login_attempts, locked_accounts,
                   last, streak, run, pair, revoked_ever, issued, ntokens, ncalls,
                   nticks>>
    /\ UNCHANGED routevars

(* the clock advances *)
Tick(d) ==
    /\ nticks < MaxTicks
    /\ now' = now + d
    /\ nticks' = nticks + 1
    /\ last' = Response("tick", "", 0, "", 0, <<>>, 0, 0, NoAccess, "")
    /\ UNCHANGED <<users, refresh_tokens, login_attempts, locked_accounts,
                   streak, run, pair, revoked_ever, ntokens, ncalls>>
    /\ UNCHANGED jwtvars
    /\ UNCHANGED routevars

(* ------------------------------------------------------------------ *)
(* Specifications                                                     *)
(* ------------------------------------------------------------------ *)
Next ==
    \/ \E u \in UserIds, p \in Passwords : Login(u, p)
    \/ \E x \in Deltas : IssueAccess(x)
    \/ VerifyAccess
    \/ \E k \in TokenInputs : Refresh(k)
    \/ \E k \in TokenInputs : ValidateRefresh(k)
    \/ \E k \in TokenInputs : Revoke(k)
    \/ DeleteExpired
    \/ \E u \in UserIds : DeleteUser(u)
    \/ \E d \in Jumps \cup TokenJumps \cup JwtJumps \cup PlanJumps : Tick(d)
    \/ \E r \in RowsCliente \cup RowsReglas \cup RowsProductos \cup RowsVolumen : Derive(r)
    \/ \E c \in Bearers, f \in Fechas, q \in QueryResults \cup RowResults :
          PlanDeRuta(c, f, q)
    \/ \E u \in UserIds : Deactivate(u)
    \/ \E d \in SpacedJumps : Wait(d)
    \/ \E s \in Slots, u \in UserIds, p \in Passwords : Arrive(s, u, p)
    \/ \E s \in Slots : Check(s)
    \/ \E s \in Slots : Finish(s)

Spec == Init /\ [][Next]_vars

(* login requests for two ids that the server has accepted together *)
ConcRequests ==
    {<<"TEST001", p>> : p \in Passwords} \cup {<<"NOEXIST", "wrong_password">>}

NextConc ==
    \/ \E s \in Slots, r \in ConcRequests : Arrive(s, r[1], r[2])
    \/ \E s \in Slots : Check(s)
    \/ \E s \in Slots : Finish(s)

SpecConc == Init /\ [][NextConc]_vars

(* get_route_plan on query results of several rows, for the test user *)
NextRuta ==
    \E f \in Fechas, q \in RowResults : PlanDeRuta(<<auth_token("TEST001")>>, f, q)

SpecRuta == Init /\ [][NextRuta]_vars

(* the core operations together: logins of the test user and of the *)
(* blocked user, refresh-token validation and refresh, deactivation *)
NextCore ==
    \/ \E p \in Passwords : Login("TEST001", p)
    \/ Login("BLOCKED001", GoodPassword)
    \/ \E k \in TokenInputs : Refresh(k)
    \/ \E k \in TokenInputs : ValidateRefresh(k)
    \/ Deactivate("TEST001")

SpecCore == Init /\ [][NextCore]_vars

(* logins of the test user with pauses of a lockout window or more *)
NextSpaced ==
    \/ \E p \in Passwords : Login("TEST001", p)
    \/ \E d \in SpacedJumps : Wait(d)

SpecSpaced == Init /\ [][NextSpaced]_vars

(* the login endpoint and the clock: rate limiter and authenticator *)
NextAuth ==
    \/ \E u \in UserIds, p \in Passwords : Login(u, p)
    \/ \E d \in Jumps : Tick(d)

SpecAuth == Init /\ [][NextAuth]_vars

(* the token service: successful logins, refresh-token operations, clock *)
NextToken ==
    \/ Login("TEST001", GoodPassword)
    \/ \E k \in TokenInputs : Refresh(k)
    \/ \E k \in TokenInputs : ValidateRefresh(k)
    \/ \E k \in TokenInputs : Revoke(k)
    \/ DeleteExpired
    \/ DeleteUser("TEST001")
    \/ \E d \in TokenJumps : Tick(d)

SpecToken == Init /\ [][NextToken]_vars

(* the login endpoint probed side by side with an existing and an unknown id *)
NextProbe ==
    \/ \E u \in UserIds, p \in Passwords : LoginProbe(u, p)
    \/ \E d \in Jumps : Tick(d)

SpecProbe == Init /\ [][NextProbe]_vars

(* create_access_token / verify_token *)
NextJwt ==
    \/ \E x \in Deltas : IssueAccess(x)
    \/ VerifyAccess
    \/ \E d \in JwtJumps : Tick(d)

SpecJwt == Init /\ [][NextJwt]_vars

(* map_to_cliente on rows that vary segment, target flag, program, coolers, promotion *)
NextCliente == \E r \in RowsCliente : Derive(r)

SpecCliente == Init /\ [][NextCliente]_vars

(* generate_recomendaciones on rows that switch every rule on and off *)
NextReglas == \E r \in RowsReglas : Derive(r)

SpecReglas == Init /\ [][NextReglas]_vars

(* generate_recomendaciones on rows that vary the four product figures *)
NextProductos == \E r \in RowsProductos : Derive(r)

SpecProductos == Init /\ [][NextProductos]_vars

(* generate_recomendaciones on rows that vary the two volumes *)
NextVolumen == \E r \in RowsVolumen : Derive(r)

SpecVolumen == Init /\ [][NextVolumen]_vars

(* the route-plan endpoint, with the account of the token's subject being *)
(* blocked, deactivated or deleted and the token expiring                *)
NextPlan ==
    \/ \E c \in Bearers, f \in Fechas, q \in QueryResults : PlanDeRuta(c, f, q)
    \/ Login("TEST001", "wrong_password")
    \/ Deactivate("TEST001")
    \/ \E d \in PlanJumps : Tick(d)

SpecPlan == Init /\ [][NextPlan]_vars

(* ------------------------------------------------------------------ *)
(* Properties                                                         *)
(* ------------------------------------------------------------------ *)
LockActive(u) == u \in DOMAIN locked_accounts /\ now < locked_accounts[u]

(* failures of u that lie inside the trailing lockout window *)
InWindowCount(u) ==
    IF u \in DOMAIN locked_accounts \/ u \notin DOMAIN login_attempts THEN 0
    ELSE Cardinality({i \in 1..Len(login_attempts[u]) :
                        login_attempts[u][i] > now - LockoutSeconds})

StreakNow(u) == IF RateStateEmpty(u) THEN 0 ELSE streak[u]

(* the request fails on its credentials: unknown id, or wrong password *)
(* for an active, unblocked user                                       *)
FailedAttempt(u, p) ==
    \/ u \notin DOMAIN users
    \/ /\ u \in DOMAIN users
       /\ ~users[u].bloqueado
       /\ users[u].activo
       /\ users[u].password_hash # hash_password(p)

(* C1: counted from an empty rate-limit state of an id, none of the first *)
(* five logins is answered RateLimited and each failed one among them is  *)
(* answered InvalidCredentials; once five failures have been answered and *)
(* all five lie inside the lockout window, the next login is answered     *)
(* RateLimited with a positive retry-after.                               *)
C1_LockoutAtFive ==
    [][\A u \in UserIds, p \in Passwords :
        Login(u, p) =>
          /\ StreakNow(u) < 5 => last'.status # 429
          /\ (StreakNow(u) < 5 /\ FailedAttempt(u, p)) =>
                (last'.status = 401 /\ last'.error = "INVALID_CREDENTIALS")
          /\ (StreakNow(u) >= 5 /\ InWindowCount(u) >= 5) =>
                /\ last'.status = 429
                /\ last'.error = "RATE_LIMIT_EXCEEDED"
                /\ last'.retryAfter > 0]_vars

C1_Witness ==
    \E u \in UserIds :
        /\ streak[u] = 5
        /\ last.op = "login" /\ last.user_id = u /\ last.status = 429
        /\ last.retryAfter = 900
        /\ u \in DOMAIN locked_accounts
        /\ Len(login_attempts[u]) = 5

RateLimitedNow(u) ==
    LockActive(u) \/ InWindowCount(u) >= RATE_LIMIT_PER_MINUTE

(* C2 as stated: a login for a user whose persisted blocked flag is true *)
(* is answered AccountBlocked and never verifies the password.           *)
C2_BlockedAlwaysAccountBlocked ==
    [][\A u \in UserIds, p \in Passwords :
        (Login(u, p) /\ u \in DOMAIN users /\ users[u].bloqueado) =>
          /\ last'.status = 403 /\ last'.error = "ACCOUNT_BLOCKED"
          /\ ~InCalls("verify_password", last'.calls)]_vars

(* C2 amended: a login for a user whose persisted blocked flag is true   *)
(* never succeeds and never verifies the password, whatever the password:*)
(* it is answered RateLimited when the rate limiter refuses the id and   *)
(* AccountBlocked otherwise.                                             *)
C2_BlockedNeverVerified ==
    [][\A u \in UserIds, p \in Passwords :
        (Login(u, p) /\ u \in DOMAIN users /\ users[u].bloqueado) =>
          /\ ~InCalls("verify_password", last'.calls)
          /\ RateLimitedNow(u) =>
                (last'.status = 429 /\ last'.error = "RATE_LIMIT_EXCEEDED")
          /\ ~RateLimitedNow(u) =>
                (last'.status = 403 /\ last'.error = "ACCOUNT_BLOCKED")
          /\ users' = users]_vars

C2_Witness ==
    /\ last.op = "login" /\ last.user_id = "TEST001"
    /\ last.status = 403 /\ last.error = "ACCOUNT_BLOCKED"
    /\ users["TEST001"].bloqueado

(* the id and password are accepted by every check of authenticate *)
ValidPair(u, p) ==
    /\ u \in DOMAIN users
    /\ users[u].activo /\ ~users[u].bloqueado
    /\ users[u].password_hash = hash_password(p)
    /\ ~RateLimitedNow(u)

(* C3: a login with a valid id/password pair (user active, not blocked,  *)
(* not rate-limited) succeeds and returns that user, and the refresh     *)
(* token it issued validates to the same user id.                        *)
C3_LoginThenValidateRefresh ==
    [][\A u \in UserIds, p \in Passwords :
        (Login(u, p) /\ ValidPair(u, p)) =>
          /\ last'.status = 200 /\ last'.user = u
          /\ validate_refresh_token(refresh_tokens', users', now',
                                    last'.refreshToken)
               = [ok |-> TRUE, error |-> "", user |-> u]]_vars

C3_Witness ==
    /\ last.op = "login" /\ last.status = 200 /\ last.user = "TEST001"
    /\ streak["TEST001"] = 4
    /\ last.refreshToken \in DOMAIN refresh_tokens
    /\ refresh_tokens[last.refreshToken].user_id = "TEST001"

(* C4: a refresh token that has been revoked is invalid in every later   *)
(* state: validate_refresh_token fails on it with InvalidCredentials, and *)
(* so does every validate or refresh request that presents it.           *)
C4_RevokedStaysInvalid ==
    /\ \A k \in revoked_ever :
          LET v == validate_refresh_token(refresh_tokens, users, now, k)
          IN ~v.ok /\ v.error = "INVALID_CREDENTIALS"
    /\ (last.op \in {"validate", "refresh"} /\ last.token_in \in revoked_ever)
          => (last.status = 401 /\ last.error = "INVALID_CREDENTIALS")

C4_Witness ==
    \E k \in revoked_ever :
        /\ k \in DOMAIN refresh_tokens
        /\ now < refresh_tokens[k].expires_at
        /\ refresh_tokens[k].user_id \in DOMAIN users
        /\ last.op = "validate" /\ last.token_in = k /\ last.status = 401
        /\ ntokens = MaxTokens

(* C5 as stated: a successful refresh leaves the refresh-token store     *)
(* unchanged: no record is created, rotated or revoked.                  *)
C5_RefreshLeavesStore ==
    [][\A k \in TokenInputs :
        (Refresh(k) /\ last'.status = 200) =>
            refresh_tokens' = refresh_tokens]_vars

(* the token is present, not revoked, not past its expiry, its owner exists *)
Acceptable(k) ==
    /\ k \in DOMAIN refresh_tokens
    /\ ~refresh_tokens[k].revoked
    /\ now <= refresh_tokens[k].expires_at
    /\ refresh_tokens[k].user_id \in DOMAIN users

(* C6: validate_refresh_token accepts a token exactly when it is in the  *)
(* store, not revoked, now <= expiry and its owner exists, and then       *)
(* returns the owner; otherwise it fails with InvalidCredentials and no   *)
(* user.                                                                 *)
C6_ValidateIff ==
    [][\A k \in TokenInputs :
        ValidateRefresh(k) =>
          /\ (last'.status = 200) <=> Acceptable(k)
          /\ Acceptable(k) => last'.user = refresh_tokens[k].user_id
          /\ ~Acceptable(k) =>
                /\ last'.status = 401
                /\ last'.error = "INVALID_CREDENTIALS"
                /\ last'.user = ""]_vars

C6_Witness ==
    /\ last.op = "validate" /\ last.status = 200
    /\ last.token_in \in DOMAIN refresh_tokens
    /\ now = refresh_tokens[last.token_in].expires_at

(* the TTL the caller asked for: the default when none is given *)
RequestedTTL(expires_delta) ==
    IF expires_delta = <<>> THEN AccessSeconds ELSE expires_delta[1]

(* C7 as stated: a token issued at t with TTL T is accepted at t+T-1 and *)
(* rejected at t+T+1, and a token with a negative TTL is rejected at t.  *)
C7_ExpiryBoundary ==
    (issued # <<>> /\ verified # <<>>) =>
        LET T == RequestedTTL(issued[1].delta)
            t == issued[1].token.iat
        IN /\ verified[1].at = t + T - 1 => verified[1].ok
           /\ verified[1].at = t + T + 1 => ~verified[1].ok
           /\ (T < 0 /\ verified[1].at = t) => ~verified[1].ok

(* C8 as stated: probed side by side with the same timing, an existing   *)
(* id (wrong passwords) and an unknown id get the same error kind at      *)
(* every step.                                                           *)
C8_SameKindSideBySide == ~pair.differ

(* C9: the persisted failed-attempt counter of a user equals its value   *)
(* before the first of the password mismatches made since the last       *)
(* success, plus the number of those mismatches.                         *)
C9_CounterCountsMismatches ==
    \A u \in DOMAIN users :
        users[u].intentos_fallidos = run[u].base + run[u].n

C9_Witness ==
    /\ run["TEST001"].n = 3 /\ users["TEST001"].intentos_fallidos = 3
    /\ ntokens = 1
    /\ last.op = "login" /\ last.user_id = "TEST001" /\ last.status = 401

(* C10: while an id has a lock whose expiry is in the future, every login *)
(* for it is answered RateLimited after the rate-limit check alone, with  *)
(* any password, and changes neither the lock, nor the failure lists, nor *)
(* the credential store.                                                  *)
C10_LockShortCircuits ==
    [][\A u \in UserIds, p \in Passwords :
        (Login(u, p) /\ LockActive(u)) =>
          /\ last'.status = 429 /\ last'.error = "RATE_LIMIT_EXCEEDED"
          /\ last'.retryAfter = locked_accounts[u] - now
          /\ last'.calls = <<"check_rate_limit">>
          /\ UNCHANGED <<users, refresh_tokens, login_attempts,
                         locked_accounts>>]_vars

C10_Witness ==
    /\ last.op = "login" /\ last.status = 429 /\ last.retryAfter = 1
    /\ last.user_id \in DOMAIN locked_accounts
    /\ locked_accounts[last.user_id] = now + 1

(* what a row says, read off its columns *)
TargetMet(row) == row.CTECUMPLIDO = PyInt(1)

TopTier(row) == row.GECS \in {PyStr("PLATINO"), PyStr("TITANIO")}

Present(v) == v \notin {Absent, PyNone, PyStr(""), PyInt(0)}

(* C15: the priority of the client derived from a row is low when the     *)
(* target-met flag is true; otherwise high when the segment is PLATINO or *)
(* TITANIO; otherwise high when a shop-program id is present; otherwise   *)
(* medium.                                                                *)
C15_PriorityFirstMatch ==
    derived # <<>> =>
        LET row == derived[1].row
        IN derived[1].cliente.prioridad =
              IF TargetMet(row) THEN "baja"
              ELSE IF TopTier(row) THEN "alta"
              ELSE IF Present(row.IDSHOP) THEN "alta"
              ELSE "media"

C15_Witness ==
    /\ derived # <<>>
    /\ derived[1].row.GECS = PyStr("TITANIO")
    /\ derived[1].row.IDSHOP = PyStr("HEI001")
    /\ derived[1].row.CTECUMPLIDO = PyInt(1)
    /\ derived[1].cliente.prioridad = "baja"

(* C16 as stated: the visit reason is program enrollment when a           *)
(* shop-program id is present; otherwise sales recovery when the          *)
(* target-met flag is not true (false, absent or null); otherwise cooler  *)
(* follow-up when the row has coolers; otherwise the promotion reason     *)
(* when a promotion is active; otherwise the scheduled-visit fallback.    *)
C16_VisitReasonFirstMatch ==
    derived # <<>> =>
        LET row == derived[1].row
        IN derived[1].cliente.razonVisita[1] =
              IF Present(row.IDSHOP) THEN "Inscripcion programa HEI"
              ELSE IF ~TargetMet(row) THEN "Recuperacion de ventas"
              ELSE IF Present(row.ENFRIADORES) THEN "Seguimiento de enfriadores"
              ELSE IF Present(row.DESCLP) THEN "Promocion activa - Lona"
              ELSE "Visita programada - Cliente"

(* the number in a column; an absent or null column counts as 0 *)
Figure(v) == IF Len(v) = 2 /\ v[1] = "int" THEN v[2] ELSE 0

(* prior-period volume > 0 and current-period volume < 0.8 x prior *)
QualifyingDrop(row) ==
    /\ Figure(row.CERVEZA_SANT) > 0
    /\ 5 * Figure(row.CERVEZA_SACT) < 4 * Figure(row.CERVEZA_SANT)

ProductCodes == {"MILLER", "INDIO", "TECATE", "XX"}

(* the rule a recommendation comes from, read off the recommendation *)
Kind(rec) ==
    IF rec.titulo[1] = "Programa HEI disponible" THEN "program"
    ELSE IF rec.titulo[1] = "Recuperar ventas" THEN "drop"
    ELSE IF rec.titulo[1] = "Mantener volumen actual" THEN "maintain"
    ELSE IF rec.sku # PyNone THEN "cross"
    ELSE IF rec.titulo[1] = "Promocion Lona activa" THEN "promotion"
    ELSE "coolers"

Rank(rec) ==
    CASE Kind(rec) = "program" -> 1
      [] Kind(rec) \in {"drop", "maintain"} -> 2
      [] Kind(rec) = "cross" -> 3
      [] Kind(rec) = "promotion" -> 4
      [] Kind(rec) = "coolers" -> 5

Positions(recs, kinds) == {i \in 1..Len(recs) : Kind(recs[i]) \in kinds}

(* C11: the recommendations of one client come in the rule order program, *)
(* sales-drop or maintain-volume, cross-sell, promotion, coolers, and each *)
(* rule fires on its own condition whatever the other rules do; a row with *)
(* a shop-program id and a qualifying drop gets both recommendations, the  *)
(* program one first.                                                      *)
C11_RuleOrder ==
    derived # <<>> =>
        LET row == derived[1].row
            recs == derived[1].recomendaciones
        IN /\ \A i, j \in 1..Len(recs) : i < j => Rank(recs[i]) <= Rank(recs[j])
           /\ Positions(recs, {"program"}) # {} <=> Present(row.IDSHOP)
           /\ Positions(recs, {"drop"}) # {} <=> QualifyingDrop(row)
           /\ Positions(recs, {"cross"}) # {}
                 <=> \E k \in ProductCodes : Figure(row[k]) > 0
           /\ Positions(recs, {"promotion"}) # {} <=> Present(row.DESCLP)
           /\ Positions(recs, {"coolers"}) # {} <=> Present(row.ENFRIADORES)
           /\ (Present(row.IDSHOP) /\ QualifyingDrop(row)) =>
                 \E i \in Positions(recs, {"program"}) :
                    \E j \in Positions(recs, {"drop"}) : i < j

C11_Witness ==
    /\ derived # <<>>
    /\ Present(derived[1].row.IDSHOP)
    /\ QualifyingDrop(derived[1].row)
    /\ Len(derived[1].recomendaciones) = 8
    /\ Kind(derived[1].recomendaciones[1]) = "program"
    /\ Kind(derived[1].recomendaciones[2]) = "drop"
    /\ Kind(derived[1].recomendaciones[8]) = "coolers"

(* round(100 x (prior - current) / prior), halves upwards *)
RoundedDrop(prior, current) ==
    (200 * (prior - current) + prior) \div (2 * prior)

(* C12 as stated: a sales-drop recommendation is emitted exactly when   *)
(* prior > 0 and current < 0.8 x prior, and the percentage it embeds is  *)
(* round(100 x (prior - current) / prior); 50 for prior 100, current 50. *)
C12_DropPercentageRounded ==
    derived # <<>> =>
        LET row == derived[1].row
            recs == derived[1].recomendaciones
            prior == Figure(row.CERVEZA_SANT)
            current == Figure(row.CERVEZA_SACT)
        IN /\ Positions(recs, {"drop"}) # {} <=> QualifyingDrop(row)
           /\ \A i \in Positions(recs, {"drop"}) :
                 recs[i].titulo[2] = RoundedDrop(prior, current)

(* C13: a row never gets both a sales-drop and a maintain-volume         *)
(* recommendation, and a row whose target is met and whose sales have    *)
(* not dropped gets exactly one maintain-volume recommendation, of type  *)
(* sales and medium priority.                                            *)
C13_DropExcludesMaintain ==
    derived # <<>> =>
        LET row == derived[1].row
            recs == derived[1].recomendaciones
        IN /\ Cardinality(Positions(recs, {"drop", "maintain"})) <= 1
           /\ (TargetMet(row) /\ ~QualifyingDrop(row)) =>
                 /\ Cardinality(Positions(recs, {"maintain"})) = 1
                 /\ \A i \in Positions(recs, {"maintain"}) :
                       recs[i].tipo = "venta" /\ recs[i].prioridad = "media"
           /\ Positions(recs, {"maintain"}) # {} => TargetMet(row)

C13_Witness ==
    /\ derived # <<>>
    /\ TargetMet(derived[1].row)
    /\ QualifyingDrop(derived[1].row)
    /\ Positions(derived[1].recomendaciones, {"drop"}) # {}
    /\ Positions(derived[1].recomendaciones, {"maintain"}) = {}

(* C17: for each of MILLER, INDIO, TECATE and XX on its own, the row gets *)
(* exactly one cross-sell recommendation (type sales, medium priority,    *)
(* tagged with the code) when the product's figure is present and > 0,    *)
(* and none when it is absent, null, zero or negative.                    *)
C17_CrossSellPerProduct ==
    derived # <<>> =>
        LET row == derived[1].row
            recs == derived[1].recomendaciones
            Tagged(k) == {i \in 1..Len(recs) : recs[i].sku = PyStr(k)}
        IN /\ \A k \in ProductCodes :
                 /\ Cardinality(Tagged(k)) = IF Figure(row[k]) > 0 THEN 1 ELSE 0
                 /\ \A i \in Tagged(k) :
                       recs[i].tipo = "venta" /\ recs[i].prioridad = "media"
           /\ Cardinality(Positions(recs, {"cross"}))
                 = Cardinality({k \in ProductCodes : Figure(row[k]) > 0})

C17_Witness ==
    /\ derived # <<>>
    /\ derived[1].row.MILLER = PyInt(10)
    /\ derived[1].row.INDIO = PyInt(0 - 1)
    /\ derived[1].row.TECATE = PyInt(0)
    /\ derived[1].row.XX = Absent
    /\ Cardinality(Positions(derived[1].recomendaciones, {"cross"})) = 1
    /\ derived[1].recomendaciones[Len(derived[1].recomendaciones)].sku = PyStr("MILLER")

(* the requested date as the text YYYY-MM-DD; a request without a date *)
(* asks for the current day, which is 1 September 2025 throughout      *)
RequestedDate(fecha) ==
    IF fecha = <<2025, 12, 31>> THEN "2025-12-31" ELSE "2025-09-01"

(* C14: when the legacy query returns no rows, the request is answered *)
(* with a plan, not an error: the plan has an empty client list and an *)
(* empty recommendation list and carries the requested date and the    *)
(* advisor's id.                                                       *)
C14_EmptyResultEmptyPlan ==
    (/\ route # <<>>
     /\ route[1].queried
     /\ route[1].results.ok
     /\ route[1].results.rows = <<>>) =>
        /\ route[1].status = 200
        /\ route[1].error = ""
        /\ Len(route[1].plan) = 1
        /\ route[1].plan[1].clientes = <<>>
        /\ route[1].plan[1].recomendaciones = <<>>
        /\ route[1].plan[1].fecha = RequestedDate(route[1].fecha)
        /\ route[1].plan[1].asesorId = route[1].credentials[1].sub

C14_Witness ==
    /\ route # <<>>
    /\ route[1].queried
    /\ route[1].results = [ok |-> TRUE, rows |-> <<>>]
    /\ route[1].fecha = <<2025, 9, 1>>
    /\ route[1].status = 200
    /\ route[1].plan[1].fecha = "2025-09-01"
    /\ route[1].plan[1].asesorId = "TEST001"
    /\ route[1].plan[1].clientes = <<>>

(* the user a presented token names, when the token verifies and the *)
(* subject is in the credential store                                *)
Verifies(credentials, t) ==
    credentials # <<>> /\ verify_token(credentials[1], t).ok

KnownSubject(credentials, us) ==
    credentials # <<>> /\ credentials[1].sub \in DOMAIN us

(* C18: a route-plan request produces a plan, and runs the legacy query, *)
(* only if its access token verifies, the subject is in the credential   *)
(* store and that user is active and not blocked when the request is     *)
(* made; a presented token that does not verify or names an unknown      *)
(* subject is answered 401 INVALID_CREDENTIALS, and a verified token of  *)
(* an inactive or blocked user 403 ACCOUNT_BLOCKED, both without running *)
(* the query.                                                            *)
C18_PlanNeedsActiveUser ==
    [][route' # route =>
        LET r == route'[1]
            c == r.credentials
            good == Verifies(c, now) /\ KnownSubject(c, users)
        IN /\ (r.status = 200 \/ r.queried \/ r.plan # <<>>) =>
                  /\ good
                  /\ users[c[1].sub].activo
                  /\ ~users[c[1].sub].bloqueado
           /\ (c # <<>> /\ ~good) =>
                  /\ r.status = 401
                  /\ r.error = "INVALID_CREDENTIALS"
                  /\ ~r.queried
                  /\ r.plan = <<>>
           /\ (good /\ (~users[c[1].sub].activo \/ users[c[1].sub].bloqueado)) =>
                  /\ r.status = 403
                  /\ r.error = "ACCOUNT_BLOCKED"
                  /\ ~r.queried
                  /\ r.plan = <<>>]_vars

C18_Witness ==
    /\ route # <<>>
    /\ route[1].credentials # <<>>
    /\ route[1].credentials[1].sub = "TEST001"
    /\ Verifies(route[1].credentials, now)
    /\ users["TEST001"].bloqueado
    /\ users["TEST001"].activo
    /\ route[1].status = 403
    /\ route[1].error = "ACCOUNT_BLOCKED"
    /\ ~route[1].queried

(* C19: a successful authenticate leaves the user with no rate-limiter  *)
(* failure list, no lock and a persisted counter of 0, so only failures *)
(* made after the last success count: an id is locked only after five   *)
(* failed logins counted from an empty rate-limit state, and a user is  *)
(* blocked only after five password mismatches since the last success.  *)
C19_SuccessResetsBothLayers ==
    /\ [][\A u \in UserIds, p \in Passwords :
            (Login(u, p) /\ last'.status = 200) =>
               /\ u \notin DOMAIN login_attempts'
               /\ u \notin DOMAIN locked_accounts'
               /\ users'[u].intentos_fallidos = 0
               /\ ~users'[u].bloqueado
               /\ run'[u] = [base |-> 0, n |-> 0]]_vars
    /\ [](\A u \in UserIds :
            /\ u \in DOMAIN locked_accounts => streak[u] >= 5
            /\ (u \in DOMAIN users /\ users[u].bloqueado) =>
                  run[u].base + run[u].n >= BLOCK_AFTER)

C19_Witness ==
    /\ last.op = "login" /\ last.user_id = "TEST001" /\ last.status = 200
    /\ streak["TEST001"] = 4
    /\ "TEST001" \notin DOMAIN login_attempts
    /\ "TEST001" \notin DOMAIN locked_accounts
    /\ users["TEST001"].intentos_fallidos = 0
    /\ ~users["TEST001"].bloqueado

(* C20: for TEST001, which starts with counter 0 and not blocked, after  *)
(* every login the blocked flag is set exactly when the persisted        *)
(* counter is 5, the counter never exceeds 5, and the flag is set by the *)
(* wrong-password login that takes the counter from 4 to 5.              *)
C20_BlockedAtFive ==
    /\ [](/\ users["TEST001"].intentos_fallidos <= BLOCK_AFTER
          /\ users["TEST001"].bloqueado
                <=> users["TEST001"].intentos_fallidos >= BLOCK_AFTER)
    /\ [][(~users["TEST001"].bloqueado /\ users'["TEST001"].bloqueado) =>
            /\ users["TEST001"].intentos_fallidos = 4
            /\ users'["TEST001"].intentos_fallidos = 5
            /\ last'.op = "login" /\ last'.user_id = "TEST001"
            /\ last'.status = 401
            /\ InCalls("verify_password", last'.calls)]_vars

C20_Witness ==
    /\ users["TEST001"].bloqueado
    /\ users["TEST001"].intentos_fallidos = 5
    /\ run["TEST001"] = [base |-> 0, n |-> 5]
    /\ last.op = "login" /\ last.user_id = "TEST001" /\ last.status = 401

(* C25 as stated: whenever a client's visit reason is the scheduled-visit *)
(* fallback, the segment it names is the segment of the client record     *)
(* derived from the same row; an absent, null or empty segment gives      *)
(* BRONCE in both.                                                        *)
C25_FallbackNamesClientSegment ==
    (derived # <<>>
     /\ derived[1].cliente.razonVisita[1] = "Visita programada - Cliente") =>
        /\ derived[1].cliente.razonVisita[2] = derived[1].cliente.segmento
        /\ ~Present(derived[1].row.GECS) =>
              derived[1].cliente.razonVisita[2] = "BRONCE"

(* how many recommendations the rules give a row *)
RuleCount(row) ==
    (IF Present(row.IDSHOP) THEN 1 ELSE 0)
    + (IF QualifyingDrop(row) \/ TargetMet(row) THEN 1 ELSE 0)
    + Cardinality({k \in ProductCodes : Figure(row[k]) > 0})
    + (IF Present(row.DESCLP) THEN 1 ELSE 0)
    + (IF Present(row.ENFRIADORES) THEN 1 ELSE 0)

(* recommendations of the rows before row i *)
RECURSIVE Offset(_, _)
Offset(rows, i) ==
    IF i = 1 THEN 0 ELSE Offset(rows, i - 1) + RuleCount(rows[i - 1])

(* C23: a plan has one client per query row, in row order, and its     *)
(* recommendation list is, row after row, the recommendations of that  *)
(* row in rule order, each carrying the id of the client of its row.   *)
C23_PlanFollowsRows ==
    (route # <<>> /\ route[1].status = 200) =>
        LET rows == route[1].results.rows
            plan == route[1].plan[1]
            recs == plan.recomendaciones
        IN /\ Len(plan.clientes) = Len(rows)
           /\ \A i \in 1..Len(rows) :
                 plan.clientes[i].id = rows[i].CLIENTE_ID[2]
           /\ Len(recs) = Offset(rows, Len(rows) + 1)
           /\ \A i \in 1..Len(rows) :
                 \A j \in 1..RuleCount(rows[i]) :
                    /\ recs[Offset(rows, i) + j].clienteId = plan.clientes[i].id
                    /\ j > 1 => Rank(recs[Offset(rows, i) + j - 1])
                                   <= Rank(recs[Offset(rows, i) + j])

C23_Witness ==
    /\ route # <<>>
    /\ route[1].status = 200
    /\ route[1].results.rows
          = <<mock_row_product_sales, mock_row_sales_drop, mock_row_hei>>
    /\ Len(route[1].plan[1].clientes) = 3
    /\ Len(route[1].plan[1].recomendaciones) = 6
    /\ route[1].plan[1].recomendaciones[4].clienteId = "C002"
    /\ Kind(route[1].plan[1].recomendaciones[4]) = "drop"
    /\ Kind(route[1].plan[1].recomendaciones[5]) = "program"
    /\ route[1].plan[1].recomendaciones[6].clienteId = "C001"

(* C24: every issue of tokens (a successful login or refresh) adds exactly *)
(* one refresh-token record and changes no other; the record is owned by   *)
(* the user, not revoked, and expires 7 days (604800 s) after the call;    *)
(* the access token carries the user's id, role and route and the type     *)
(* "access", and expiresIn is the access lifetime of 3600 s.               *)
C24_IssueTokens ==
    [][ntokens' = ntokens + 1 =>
        LET new == DOMAIN refresh_tokens' \ DOMAIN refresh_tokens
            owner == users[last'.user]
            claims == last'.access[1]
        IN /\ Cardinality(new) = 1
           /\ \A k \in DOMAIN refresh_tokens : refresh_tokens'[k] = refresh_tokens[k]
           /\ \A k \in new :
                 /\ refresh_tokens'[k].user_id = owner.id
                 /\ refresh_tokens'[k].revoked = FALSE
                 /\ refresh_tokens'[k].expires_at = now + 604800
                 /\ last'.op = "login" => last'.refreshToken = k
           /\ claims.sub = owner.id
           /\ claims.rol = owner.rol
           /\ claims.ruta = owner.ruta
           /\ claims.type = "access"
           /\ create_user_tokens(refresh_tokens, ntokens, owner, now).expires_in
                 = 3600]_vars

C24_Witness ==
    /\ last.op = "login" /\ last.status = 200 /\ last.user = "TEST001"
    /\ now = RefreshSeconds
    /\ ntokens = 2
    /\ Cardinality(DOMAIN refresh_tokens) = 2
    /\ refresh_tokens[last.refreshToken]
          = [user_id |-> "TEST001", expires_at |-> 1209600,
             created_at |-> 604800, revoked |-> FALSE]
    /\ last.access[1].sub = "TEST001"
    /\ last.access[1].type = "access"

(* C26: no step of authenticate, issueTokens, validateRefresh or refresh *)
(* takes a user's blocked flag from true to false, and a login for a     *)
(* user whose flag is true never returns the user: it is not answered    *)
(* 200 and issues no token.                                              *)
C26_BlockedIsMonotone ==
    [][/\ \A u \in DOMAIN users :
            users[u].bloqueado => (u \in DOMAIN users' /\ users'[u].bloqueado)
       /\ \A u \in UserIds, p \in Passwords :
            (Login(u, p) /\ u \in DOMAIN users /\ users[u].bloqueado) =>
               /\ last'.status # 200
               /\ last'.user = ""
               /\ last'.access = NoAccess
               /\ refresh_tokens' = refresh_tokens]_vars

C26_Witness ==
    /\ users["TEST001"].bloqueado
    /\ run["TEST001"].n = 5
    /\ last.op = "validate" /\ last.status = 200 /\ last.user = "TEST001"

(* the credential store with the flags and counter of one user replaced *)
WithFlags(u, b, a, n) ==
    [users EXCEPT ![u] = [@ EXCEPT !.bloqueado = b, !.activo = a,
                                   !.intentos_fallidos = n]]

(* C28: the outcome of validateRefresh and refresh is decided by the     *)
(* refresh-token record and the existence of its owner alone: replacing  *)
(* the owner's blocked flag, active flag and failed-attempt counter by   *)
(* any other values leaves the outcome of validate_refresh_token the     *)
(* same, and a refresh with an acceptable token is answered 200 with an  *)
(* access token whatever those values and the rate-limit lock are.       *)
C28_RefreshIgnoresAccountState ==
    /\ [](\A k \in TokenInputs : \A u \in DOMAIN users :
            \A b \in BOOLEAN, a \in BOOLEAN, n \in 0..BLOCK_AFTER :
               validate_refresh_token(refresh_tokens, WithFlags(u, b, a, n), now, k)
                  = validate_refresh_token(refresh_tokens, users, now, k))
    /\ [][\A k \in TokenInputs :
            Refresh(k) =>
               /\ (last'.status = 200) <=> Acceptable(k)
               /\ Acceptable(k) =>
                     /\ last'.user = refresh_tokens[k].user_id
                     /\ last'.access # NoAccess
                     /\ last'.access[1].sub = refresh_tokens[k].user_id]_vars

C28_Witness ==
    /\ users["TEST001"].bloqueado
    /\ users["TEST001"].intentos_fallidos = 5
    /\ "TEST001" \in DOMAIN locked_accounts
    /\ now < locked_accounts["TEST001"]
    /\ last.op = "refresh" /\ last.status = 200 /\ last.user = "TEST001"
    /\ last.access # NoAccess

(* C21: a login for an id whose lock has expired (now >= expiry) removes *)
(* the lock and the old failure list and goes on to the credential       *)
(* checks without RateLimited, so that afterwards the list holds at most *)
(* the failure of this very call; and a lock is removed by no other      *)
(* step: not by the clock, not by a login for another id, not by a login *)
(* before the expiry.                                                    *)
C21_LazyEviction ==
    [][/\ \A u \in UserIds, p \in Passwords :
            (Login(u, p) /\ u \in DOMAIN locked_accounts
                         /\ now >= locked_accounts[u]) =>
               /\ u \notin DOMAIN locked_accounts'
               /\ last'.status # 429
               /\ InCalls("get_user_by_id", last'.calls)
               /\ u \in DOMAIN login_attempts' => login_attempts'[u] = <<now>>
       /\ \A v \in DOMAIN locked_accounts :
            (v \notin DOMAIN locked_accounts'
             \/ locked_accounts'[v] # locked_accounts[v]) =>
               /\ last'.op = "login" /\ last'.user_id = v
               /\ now >= locked_accounts[v]
               /\ ncalls' = ncalls + 1]_vars

C21_Witness ==
    /\ last.op = "login" /\ last.user_id = "NOEXIST" /\ last.status = 401
    /\ now = LockoutSeconds
    /\ ncalls = 7
    /\ streak["NOEXIST"] = 6
    /\ "NOEXIST" \notin DOMAIN locked_accounts
    /\ "NOEXIST" \in DOMAIN login_attempts
    /\ login_attempts["NOEXIST"] = <<LockoutSeconds>>

(* C27: a login for one id leaves the failure list and the lock of every *)
(* other id as they were, so a login is answered RateLimited only on the *)
(* strength of that id's own entries.                                    *)
C27_RateStatePerUser ==
    [][\A u \in UserIds, p \in Passwords :
        Login(u, p) =>
          /\ \A v \in UserIds \ {u} :
                RateEntry(login_attempts', locked_accounts', v)
                   = RateEntry(login_attempts, locked_accounts, v)
          /\ last'.status = 429 =>
                \/ LockActive(u)
                \/ (u \in DOMAIN login_attempts
                    /\ Len(login_attempts[u]) >= RATE_LIMIT_PER_MINUTE)]_vars

C27_Witness ==
    /\ "NOEXIST" \in DOMAIN locked_accounts
    /\ "NOEXIST" \in DOMAIN login_attempts
    /\ "TEST001" \in DOMAIN login_attempts
    /\ Len(login_attempts["NOEXIST"]) = 5
    /\ last.op = "login" /\ last.user_id = "TEST001" /\ last.status = 401
    /\ login_attempts["TEST001"] = <<now>>
    /\ "TEST001" \notin DOMAIN locked_accounts

(* C29: no failure list ever holds more than five entries, and a login   *)
(* for an id whose lock is active leaves every failure list unchanged.   *)
C29_FailureListBounded ==
    /\ [](\A u \in DOMAIN login_attempts :
             Len(login_attempts[u]) <= RATE_LIMIT_PER_MINUTE)
    /\ [][\A u \in UserIds, p \in Passwords :
            (Login(u, p) /\ LockActive(u)) =>
               login_attempts' = login_attempts]_vars

C29_Witness ==
    /\ "NOEXIST" \in DOMAIN locked_accounts
    /\ "NOEXIST" \in DOMAIN login_attempts
    /\ Len(login_attempts["NOEXIST"]) = 5
    /\ now < locked_accounts["NOEXIST"]
    /\ last.op = "login" /\ last.user_id = "NOEXIST" /\ last.status = 429
    /\ ncalls = 7

(* every recorded failure of u is at least a lockout window old, and u *)
(* has no lock                                                         *)
Spaced(u) ==
    /\ u \notin DOMAIN locked_accounts
    /\ u \in DOMAIN login_attempts =>
          \A i \in 1..Len(login_attempts[u]) :
             login_attempts[u][i] + LockoutSeconds <= now

(* C30: logins of an existing, active, unblocked user that come at least *)
(* a lockout window after every earlier failure are never answered      *)
(* RateLimited and install no lock, and the fifth consecutive wrong      *)
(* password among them still sets the persisted blocked flag: five       *)
(* mismatches since the last success block the user however far apart    *)
(* they are.                                                             *)
C30_BlockIgnoresWindow ==
    /\ [](\A u \in DOMAIN users :
            run[u].base + run[u].n >= BLOCK_AFTER => users[u].bloqueado)
    /\ [][\A p \in Passwords :
            (Login("TEST001", p) /\ Spaced("TEST001")) =>
               /\ last'.status # 429
               /\ "TEST001" \notin DOMAIN locked_accounts'
               /\ (/\ ~users["TEST001"].bloqueado
                   /\ run["TEST001"].n = BLOCK_AFTER - 1
                   /\ p # GoodPassword) =>
                     /\ last'.status = 401
                     /\ users'["TEST001"].bloqueado]_vars

C30_Witness ==
    /\ users["TEST001"].bloqueado
    /\ run["TEST001"] = [base |-> 0, n |-> 5]
    /\ streak["TEST001"] = 5
    /\ ncalls = 5
    /\ nticks = 4
    /\ now >= 4 * LockoutSeconds
    /\ last.op = "login" /\ last.status = 401
    /\ "TEST001" \notin DOMAIN locked_accounts
    /\ login_attempts["TEST001"] = <<now>>

(* C22: logins for one id that are in flight together do not interleave *)
(* on that id's rate-limit entry: when a handler goes on after          *)
(* check_rate_limit the entry is still what its check left, a failed    *)
(* attempt appends exactly one timestamp to that list, and the list     *)
(* never holds more than the five failures the threshold allows         *)
C22_EntryExclusive ==
    /\ [][\A s \in Slots : Finish(s) =>
            LET u == inflight[s].user_id IN
            /\ RateEntry(login_attempts, locked_accounts, u) = inflight[s].seen
            /\ last'.status = 401 =>
                  /\ u \in DOMAIN login_attempts'
                  /\ login_attempts'[u] =
                        (IF inflight[s].seen[1] = <<>> THEN <<>>
                         ELSE inflight[s].seen[1][1]) \o <<now>>]_vars
    /\ [](\A u \in DOMAIN login_attempts :
              Len(login_attempts[u]) <= RATE_LIMIT_PER_MINUTE)

(* two logins for one id were in flight together and both failed: the *)
(* list holds the failure of each                                     *)
C22_Witness ==
    \E s \in Slots : \E o \in Slots \ {s} :
        /\ inflight[s].pc = "done" /\ inflight[o].pc = "done"
        /\ inflight[s].user_id = inflight[o].user_id
        /\ inflight[s].overlap
        /\ inflight[s].status = 401 /\ inflight[o].status = 401
        /\ login_attempts[inflight[s].user_id] = <<now, now>>
====
